---- MODULE Spec2Model ----
(***************************************************************************)
(* Model of the PRS stack allocator (prs/alloc/stack.c).                   *)
(*                                                                         *)
(* A stack is a reservation of PRS_MAX_STACK_SIZE bytes of address space;  *)
(* prs_stack_create commits the tail of it, prs_stack_grow commits more    *)
(* pages below the committed tail, prs_stack_destroy unmaps the whole      *)
(* reservation.  The allocator keeps no state: the caller holds the pair   *)
(* (stack, size).  The model keeps the protection of every page of a small *)
(* address space, the callers' pairs, and a record of the last call with   *)
(* the memory primitives it issued.                                        *)
(*                                                                         *)
(* The two builds (PRS_PAL_OS == PRS_PAL_OS_WINDOWS, the guard-page        *)
(* platform, and the other one, the alternate-handler-stack platform) are  *)
(* told apart by the variable os, fixed in Init.                           *)
(***************************************************************************)
EXTENDS Integers, Sequences, FiniteSets, TLC

(* ------------------------------ bounds --------------------------------- *)
\* pointer width in bits (prs_uintptr_t / prs_size_t), scaled down
PtrBits == 7
\* log2 of the page size, scaled down
PageShift == 1
\* PRS_MAX_STACK_SIZE in pages, scaled down
MaxPages == 13
\* number of places at which the reservation primitive can put a stack
NumBases == 2

AddrSpace == 2 ^ PtrBits
Addr == 0 .. (AddrSpace - 1)

\* callers (tasks) holding a stack handle
Tasks == {1, 2}
\* the task that acts in the sequential specification
SoloTasks == {1}

VARIABLES
    os,         \* "windows" (guard page) or "linux" (alternate handler stack)
    mem,        \* protection of every page of the address space
    stack,      \* per task: the stack returned by create, 0 when none
    size,       \* per task: the size last returned by create or grow
    peak,       \* per task: the largest size returned for the stack it holds
    refused,    \* the pages whose latest commit the OS refused
    last,       \* the last call: arguments, result, primitives issued
    terminated  \* a precondition or an assertion has stopped the program

vars == <<os, mem, stack, size, peak, refused, last, terminated>>

(* ------------------------- platform collaborators ---------------------- *)
prs_pal_os_get_page_size == 2 ^ PageShift

PRS_MAX_STACK_SIZE == MaxPages * prs_pal_os_get_page_size

PRS_STACK_EXTRA_PAGES == IF os = "windows" THEN 3 ELSE 0

NPages == AddrSpace \div prs_pal_os_get_page_size
PageIdx == 0 .. (NPages - 1)

\* pointer-width unsigned arithmetic
Add(a, b) == (a + b) % AddrSpace
Sub(a, b) == (a - b + AddrSpace) % AddrSpace

\* round size up to a multiple of align, in pointer-width arithmetic
prs_bitops_align_size(sz, align) == (Add(sz, align - 1) \div align) * align

\* the pages that the byte range [ptr, ptr + len) touches
PagesOf(ptr, len) ==
    IF len = 0 THEN {}
    ELSE LET first == ptr \div prs_pal_os_get_page_size
             end   == (ptr + len - 1) \div prs_pal_os_get_page_size
         IN  first .. (IF end < NPages THEN end ELSE NPages - 1)

\* where the reservation primitive may place a range
BaseCandidates ==
    { prs_pal_os_get_page_size + k * PRS_MAX_STACK_SIZE : k \in 0 .. (NumBases - 1) }

\* outcomes of prs_pal_mem_map(len): 0 (failure) or the base of a free range
MapOutcomes(m, len) ==
    {0} \cup { b \in BaseCandidates :
                 /\ b + len < AddrSpace
                 /\ \A p \in PagesOf(b, len) : m[p] = "free" }

prs_pal_mem_map(m, b, len) ==
    [p \in PagesOf(b, len) |-> "reserved"] @@ m

\* commit [ptr, ptr+len) with the given protection; it fails, changing
\* nothing, when ok is FALSE or a page of the range is not reserved
prs_pal_mem_commit(m, ptr, len, flags, ok) ==
    IF ok /\ \A p \in PagesOf(ptr, len) : m[p] # "free"
    THEN [p \in PagesOf(ptr, len) |-> flags] @@ m
    ELSE m

prs_pal_mem_unmap(m, ptr, len) ==
    [p \in PagesOf(ptr, len) |-> "free"] @@ m

\* a commit request as create and grow issue it
CommitReq(ptr, len, flags) == [ptr |-> ptr, len |-> len, flags |-> flags]

\* apply the commit requests cs in order; those whose index is in fails fail
RECURSIVE ApplyCommits(_, _, _, _)
ApplyCommits(m, cs, i, fails) ==
    IF i > Len(cs) THEN m
    ELSE ApplyCommits(prs_pal_mem_commit(m, cs[i].ptr, cs[i].len, cs[i].flags, i \notin fails),
                      cs, i + 1, fails)

(* ------------------------------ the calls ------------------------------ *)
\* value of an output parameter that the call did not write
Unwritten == -1

Call(op, t, sz, stk, old, ptr) ==
    [op |-> op, task |-> t, sz |-> sz, stk |-> stk, old |-> old, ptr |-> ptr]

\* what a call did: how it ended, what it returned, which primitives it
\* issued and the memory it left
Outcome(fatal, ret_ptr, ret_ok, out, maps, commits, unmaps, m) ==
    [fatal |-> fatal, ret_ptr |-> ret_ptr, ret_ok |-> ret_ok, out |-> out,
     maps |-> maps, commits |-> commits, unmaps |-> unmaps, mem |-> m]

(* prs_stack_create *)

\* variant: the requested size is not rounded up
CreateAlignedSize_NoAlign(sz) == sz

\* aligned_size
CreateAlignedSize(sz) == prs_bitops_align_size(sz, prs_pal_os_get_page_size)

\* variant: only the aligned size is reserved
CreateMapSize_Aligned(aligned_size) == aligned_size

\* the size handed to prs_pal_mem_map
CreateMapSize(aligned_size) == PRS_MAX_STACK_SIZE

\* extra_size: the guard page and the extra pages
CreateExtraSize == prs_pal_os_get_page_size * (1 + PRS_STACK_EXTRA_PAGES)

\* the stack returned for a reservation at stack_bottom
CreateStack(stack_bottom) == Add(stack_bottom, PRS_MAX_STACK_SIZE)

\* variant: the read/write commit of create is one page short
CreateCommits_Short(stack_limit, aligned_size) ==
    (IF os = "windows"
     THEN << CommitReq(Sub(stack_limit, prs_pal_os_get_page_size * (1 + PRS_STACK_EXTRA_PAGES)),
                       prs_pal_os_get_page_size * PRS_STACK_EXTRA_PAGES, "rw"),
             CommitReq(Sub(stack_limit, prs_pal_os_get_page_size),
                       prs_pal_os_get_page_size, "guard") >>
     ELSE << >>)
    \o << CommitReq(stack_limit, aligned_size - prs_pal_os_get_page_size, "rw") >>

\* the commits of create, in the order issued
CreateCommits(stack_limit, aligned_size) ==
    (IF os = "windows"
     THEN << CommitReq(Sub(stack_limit, CreateExtraSize),
                       prs_pal_os_get_page_size * PRS_STACK_EXTRA_PAGES, "rw"),
             CommitReq(Sub(stack_limit, prs_pal_os_get_page_size),
                       prs_pal_os_get_page_size, "guard") >>
     ELSE << >>)
    \o << CommitReq(stack_limit, aligned_size, "rw") >>

\* variant: the guard-page build does not check the room for the guard and
\* extra pages
prs_stack_create_NoRoomCheck(m, sz, stack_bottom, fails) ==
    IF ~(sz > 0)
    THEN Outcome(TRUE, 0, FALSE, Unwritten, << >>, << >>, << >>, m)
    ELSE
    LET aligned_size == CreateAlignedSize(sz) IN
    IF aligned_size > PRS_MAX_STACK_SIZE
    THEN Outcome(FALSE, 0, FALSE, Unwritten, << >>, << >>, << >>, m)
    ELSE
    LET map_size == CreateMapSize(aligned_size)
        mapped   == << [len |-> map_size, base |-> stack_bottom] >> IN
    IF stack_bottom = 0
    THEN Outcome(FALSE, 0, FALSE, Unwritten, mapped, << >>, << >>, m)
    ELSE
    LET m1             == prs_pal_mem_map(m, stack_bottom, map_size)
        protected_size == PRS_MAX_STACK_SIZE - aligned_size
        stack_limit    == Add(stack_bottom, protected_size)
        cs             == CreateCommits(stack_limit, aligned_size) IN
    Outcome(FALSE, CreateStack(stack_bottom), FALSE, aligned_size, mapped, cs, << >>,
            ApplyCommits(m1, cs, 1, fails))

\* create(sz) when the reservation primitive answers stack_bottom (0: failure)
\* and the commits whose index is in fails fail
prs_stack_create(m, sz, stack_bottom, fails) ==
    IF ~(sz > 0)
    THEN Outcome(TRUE, 0, FALSE, Unwritten, << >>, << >>, << >>, m)
    ELSE
    LET aligned_size == CreateAlignedSize(sz) IN
    IF aligned_size > PRS_MAX_STACK_SIZE
    THEN Outcome(FALSE, 0, FALSE, Unwritten, << >>, << >>, << >>, m)
    ELSE
    LET map_size == CreateMapSize(aligned_size)
        mapped   == << [len |-> map_size, base |-> stack_bottom] >> IN
    IF stack_bottom = 0
    THEN Outcome(FALSE, 0, FALSE, Unwritten, mapped, << >>, << >>, m)
    ELSE
    LET m1             == prs_pal_mem_map(m, stack_bottom, map_size)
        protected_size == PRS_MAX_STACK_SIZE - aligned_size
        stack_limit    == Add(stack_bottom, protected_size) IN
    IF os = "windows" /\ aligned_size > PRS_MAX_STACK_SIZE - CreateExtraSize
    THEN Outcome(FALSE, 0, FALSE, Unwritten, mapped, << >>, << >>, m1)
    ELSE
    LET cs == CreateCommits(stack_limit, aligned_size) IN
    Outcome(FALSE, CreateStack(stack_bottom), FALSE, aligned_size, mapped, cs, << >>,
            ApplyCommits(m1, cs, 1, fails))

(* prs_stack_destroy *)

\* variant: the bottom is computed one page too low
DestroyBottom_Below(stk) == Sub(stk, PRS_MAX_STACK_SIZE + prs_pal_os_get_page_size)

\* variant: the bottom is computed one page too high
DestroyBottom_OffByPage(stk) == Sub(stk, PRS_MAX_STACK_SIZE - prs_pal_os_get_page_size)

DestroyBottom(stk) == Sub(stk, PRS_MAX_STACK_SIZE)

prs_stack_destroy(m, stk) ==
    LET stack_bottom == DestroyBottom(stk) IN
    Outcome(FALSE, 0, FALSE, Unwritten, << >>, << >>,
            << [ptr |-> stack_bottom, len |-> PRS_MAX_STACK_SIZE] >>,
            prs_pal_mem_unmap(m, stack_bottom, PRS_MAX_STACK_SIZE))

(* prs_stack_grow *)

\* required_size (alternate-handler-stack build only)
GrowRequiredSize(stk, failed_ptr) == Sub(stk, failed_ptr)

\* grow_size
GrowSize(stk, failed_ptr) ==
    IF os = "windows"
    THEN (1 + PRS_STACK_EXTRA_PAGES) * prs_pal_os_get_page_size
    ELSE prs_bitops_align_size(GrowRequiredSize(stk, failed_ptr), prs_pal_os_get_page_size)

\* variant: the guard-page build grows by the guard page only
GrowAlignedNewSize_GuardOnly(stk, old_size, failed_ptr) ==
    IF os = "windows"
    THEN Add(old_size, prs_pal_os_get_page_size)
    ELSE prs_bitops_align_size(Sub(stk, failed_ptr), prs_pal_os_get_page_size)

\* variant: the other build does not round the required size up
GrowAlignedNewSize_Unaligned(stk, old_size, failed_ptr) ==
    IF os = "windows"
    THEN Add(old_size, (1 + PRS_STACK_EXTRA_PAGES) * prs_pal_os_get_page_size)
    ELSE Sub(stk, failed_ptr)

\* aligned_new_size
GrowAlignedNewSize(stk, old_size, failed_ptr) ==
    IF os = "windows"
    THEN Add(old_size, GrowSize(stk, failed_ptr))
    ELSE prs_bitops_align_size(GrowRequiredSize(stk, failed_ptr), prs_pal_os_get_page_size)

\* variant: the read/write commit of grow stops short of the previous guard page
GrowCommits_StaleGuard(stack_limit, grow_size) ==
    (IF os = "windows"
     THEN << CommitReq(Sub(stack_limit, grow_size),
                       prs_pal_os_get_page_size * PRS_STACK_EXTRA_PAGES, "rw"),
             CommitReq(Sub(stack_limit, prs_pal_os_get_page_size),
                       prs_pal_os_get_page_size, "guard") >>
     ELSE << >>)
    \o << CommitReq(stack_limit, grow_size - prs_pal_os_get_page_size, "rw") >>

\* the commits of grow, in the order issued
GrowCommits(stack_limit, grow_size) ==
    (IF os = "windows"
     THEN << CommitReq(Sub(stack_limit, grow_size),
                       prs_pal_os_get_page_size * PRS_STACK_EXTRA_PAGES, "rw"),
             CommitReq(Sub(stack_limit, prs_pal_os_get_page_size),
                       prs_pal_os_get_page_size, "guard") >>
     ELSE << >>)
    \o << CommitReq(stack_limit, grow_size, "rw") >>

\* variant: the required size is not asserted to exceed the old size
prs_stack_grow_NoAssert(m, stk, old_size, failed_ptr, fails) ==
    IF stk = 0
    THEN Outcome(TRUE, 0, FALSE, Unwritten, << >>, << >>, << >>, m)
    ELSE
    LET grow_size        == GrowSize(stk, failed_ptr)
        aligned_new_size == GrowAlignedNewSize(stk, old_size, failed_ptr) IN
    IF aligned_new_size > PRS_MAX_STACK_SIZE
    THEN Outcome(FALSE, 0, FALSE, Unwritten, << >>, << >>, << >>, m)
    ELSE
    LET stack_bottom   == Sub(stk, PRS_MAX_STACK_SIZE)
        protected_size == PRS_MAX_STACK_SIZE - aligned_new_size
        stack_limit    == Add(stack_bottom, protected_size) IN
    IF os = "windows" /\ aligned_new_size > PRS_MAX_STACK_SIZE - grow_size
    THEN Outcome(FALSE, 0, FALSE, Unwritten, << >>, << >>, << >>, m)
    ELSE
    LET cs == GrowCommits(stack_limit, grow_size) IN
    Outcome(FALSE, 0, TRUE, aligned_new_size, << >>, cs, << >>,
            ApplyCommits(m, cs, 1, fails))

\* variant: the room for the guard and extra pages is checked after the commits
prs_stack_grow_LateCheck(m, stk, old_size, failed_ptr, fails) ==
    IF stk = 0
    THEN Outcome(TRUE, 0, FALSE, Unwritten, << >>, << >>, << >>, m)
    ELSE
    IF os # "windows" /\ ~(GrowRequiredSize(stk, failed_ptr) > old_size)
    THEN Outcome(TRUE, 0, FALSE, Unwritten, << >>, << >>, << >>, m)
    ELSE
    LET grow_size        == GrowSize(stk, failed_ptr)
        aligned_new_size == GrowAlignedNewSize(stk, old_size, failed_ptr) IN
    IF aligned_new_size > PRS_MAX_STACK_SIZE
    THEN Outcome(FALSE, 0, FALSE, Unwritten, << >>, << >>, << >>, m)
    ELSE
    LET stack_bottom   == Sub(stk, PRS_MAX_STACK_SIZE)
        protected_size == PRS_MAX_STACK_SIZE - aligned_new_size
        stack_limit    == Add(stack_bottom, protected_size)
        cs             == GrowCommits(stack_limit, grow_size) IN
    IF os = "windows" /\ aligned_new_size > PRS_MAX_STACK_SIZE - grow_size
    THEN Outcome(FALSE, 0, FALSE, Unwritten, << >>, cs, << >>,
                 ApplyCommits(m, cs, 1, fails))
    ELSE
    Outcome(FALSE, 0, TRUE, aligned_new_size, << >>, cs, << >>,
            ApplyCommits(m, cs, 1, fails))

prs_stack_grow(m, stk, old_size, failed_ptr, fails) ==
    IF stk = 0
    THEN Outcome(TRUE, 0, FALSE, Unwritten, << >>, << >>, << >>, m)
    ELSE
    IF os # "windows" /\ ~(GrowRequiredSize(stk, failed_ptr) > old_size)
    THEN Outcome(TRUE, 0, FALSE, Unwritten, << >>, << >>, << >>, m)
    ELSE
    LET grow_size        == GrowSize(stk, failed_ptr)
        aligned_new_size == GrowAlignedNewSize(stk, old_size, failed_ptr) IN
    IF aligned_new_size > PRS_MAX_STACK_SIZE
    THEN Outcome(FALSE, 0, FALSE, Unwritten, << >>, << >>, << >>, m)
    ELSE
    LET stack_bottom   == Sub(stk, PRS_MAX_STACK_SIZE)
        protected_size == PRS_MAX_STACK_SIZE - aligned_new_size
        stack_limit    == Add(stack_bottom, protected_size) IN
    IF os = "windows" /\ aligned_new_size > PRS_MAX_STACK_SIZE - grow_size
    THEN Outcome(FALSE, 0, FALSE, Unwritten, << >>, << >>, << >>, m)
    ELSE
    LET cs == GrowCommits(stack_limit, grow_size) IN
    Outcome(FALSE, 0, TRUE, aligned_new_size, << >>, cs, << >>,
            ApplyCommits(m, cs, 1, fails))

(* prs_stack_address_in_range *)

\* variant: the upper bound is inclusive
prs_stack_address_in_range_Inclusive(stk, address) ==
    LET ptr   == address
        start == Sub(stk, PRS_MAX_STACK_SIZE)
        end   == stk IN
    ptr >= start /\ ptr <= end

prs_stack_address_in_range(stk, address) ==
    LET ptr   == address
        start == Sub(stk, PRS_MAX_STACK_SIZE)
        end   == stk IN
    ptr >= start /\ ptr < end

(* ------------------------------ inputs --------------------------------- *)
\* a requested size whose round-up overflows the pointer width
HugeSize == AddrSpace - 1

\* requested sizes: every size up to one page past the ceiling, and a huge one
ReqSizes == (0 .. (PRS_MAX_STACK_SIZE + prs_pal_os_get_page_size)) \cup {HugeSize}

\* the fault handler hands grow the address of a stack overflow: an address
\* of the stack's reservation or of the page below it
FailedPtrs(stk) ==
    { a \in Addr : /\ a < stk
                   /\ a + PRS_MAX_STACK_SIZE + prs_pal_os_get_page_size >= stk }

\* the commits of one call that the OS may refuse: none, one of them, all
CommitIdx == 1 .. 3
FailSets == {{}} \cup {{i} : i \in CommitIdx} \cup {CommitIdx}

(* ------------------------------ actions -------------------------------- *)
NoCall == Call("none", 0, 0, 0, 0, 0) @@
          Outcome(FALSE, 0, FALSE, Unwritten, << >>, << >>, << >>, << >>) @@
          [pre |-> << >>]

Record(call, res) ==
    call @@ [fatal |-> res.fatal, ret_ptr |-> res.ret_ptr, ret_ok |-> res.ret_ok,
             out |-> res.out, maps |-> res.maps, commits |-> res.commits,
             unmaps |-> res.unmaps, pre |-> mem]

\* the pages whose latest commit was refused, after the commit requests cs
\* of which those whose index is in fails were refused
RECURSIVE RefusedAfter(_, _, _, _)
RefusedAfter(r, cs, i, fails) ==
    IF i > Len(cs) THEN r
    ELSE RefusedAfter(IF i \in fails THEN r \cup PagesOf(cs[i].ptr, cs[i].len)
                                     ELSE r \ PagesOf(cs[i].ptr, cs[i].len),
                      cs, i + 1, fails)

\* the pages of r that are still mapped in m
StillMapped(r, m) == { p \in r : m[p] # "free" }

Init ==
    /\ os \in {"windows", "linux"}
    /\ mem = [p \in PageIdx |-> "free"]
    /\ stack = [t \in Tasks |-> 0]
    /\ size = [t \in Tasks |-> 0]
    /\ peak = [t \in Tasks |-> 0]
    /\ refused = {}
    /\ last = NoCall
    /\ terminated = FALSE

\* task t, holding no stack, calls prs_stack_create(sz, &available_size)
Create(t, sz, fails) ==
    /\ ~terminated
    /\ stack[t] = 0
    /\ \E b \in MapOutcomes(mem, CreateMapSize(CreateAlignedSize(sz))) :
         LET res == prs_stack_create(mem, sz, b, fails) IN
         /\ mem' = res.mem
         /\ terminated' = res.fatal
         /\ last' = Record(Call("create", t, sz, 0, 0, 0), res)
         /\ refused' = StillMapped(RefusedAfter(refused, res.commits, 1, fails), res.mem)
         /\ IF ~res.fatal /\ res.ret_ptr # 0
            THEN /\ stack' = [stack EXCEPT ![t] = res.ret_ptr]
                 /\ size' = [size EXCEPT ![t] = res.out]
                 /\ peak' = [peak EXCEPT ![t] = res.out]
            ELSE UNCHANGED <<stack, size, peak>>
    /\ UNCHANGED os

\* task t's fault handler calls prs_stack_grow(stack, size, failed_ptr, &new_size)
Grow(t, failed_ptr, fails) ==
    /\ ~terminated
    /\ stack[t] # 0
    /\ LET res == prs_stack_grow(mem, stack[t], size[t], failed_ptr, fails) IN
         /\ mem' = res.mem
         /\ terminated' = res.fatal
         /\ last' = Record(Call("grow", t, 0, stack[t], size[t], failed_ptr), res)
         /\ refused' = StillMapped(RefusedAfter(refused, res.commits, 1, fails), res.mem)
         /\ IF ~res.fatal /\ res.ret_ok
            THEN /\ size' = [size EXCEPT ![t] = res.out]
                 /\ peak' = [peak EXCEPT ![t] = IF res.out > peak[t] THEN res.out ELSE peak[t]]
            ELSE UNCHANGED <<size, peak>>
    /\ UNCHANGED <<os, stack>>

\* task t calls prs_stack_destroy(stack) and drops the handle
Destroy(t) ==
    /\ ~terminated
    /\ stack[t] # 0
    /\ LET res == prs_stack_destroy(mem, stack[t]) IN
         /\ mem' = res.mem
         /\ last' = Record(Call("destroy", t, 0, stack[t], size[t], 0), res)
         /\ refused' = StillMapped(refused, res.mem)
    /\ stack' = [stack EXCEPT ![t] = 0]
    /\ size' = [size EXCEPT ![t] = 0]
    /\ peak' = [peak EXCEPT ![t] = 0]
    /\ UNCHANGED <<os, terminated>>

\* task t asks prs_stack_address_in_range(stack, address)
AddressInRange(t, address) ==
    /\ ~terminated
    /\ stack[t] # 0
    /\ last' = Record(Call("in_range", t, 0, stack[t], size[t], address),
                      Outcome(FALSE, 0, prs_stack_address_in_range(stack[t], address),
                              Unwritten, << >>, << >>, << >>, mem))
    /\ UNCHANGED <<os, mem, stack, size, peak, refused, terminated>>

\* task t, holding no stack, calls prs_stack_grow(0, size, failed_ptr, &new_size)
GrowNull(t, failed_ptr) ==
    /\ ~terminated
    /\ stack[t] = 0
    /\ LET res == prs_stack_grow(mem, 0, size[t], failed_ptr, {}) IN
         /\ mem' = res.mem
         /\ terminated' = res.fatal
         /\ last' = Record(Call("grow", t, 0, 0, size[t], failed_ptr), res)
         /\ refused' = StillMapped(refused, res.mem)
    /\ UNCHANGED <<os, stack, size, peak>>

\* task t, holding no stack, calls prs_stack_destroy(0)
DestroyNull(t) ==
    /\ ~terminated
    /\ stack[t] = 0
    /\ LET res == prs_stack_destroy(mem, 0) IN
         /\ mem' = res.mem
         /\ terminated' = res.fatal
         /\ last' = Record(Call("destroy", t, 0, 0, size[t], 0), res)
         /\ refused' = StillMapped(refused, res.mem)
    /\ UNCHANGED <<os, stack, size, peak>>

\* one task; every commit succeeds
Next ==
    \E t \in SoloTasks :
        \/ \E sz \in ReqSizes : Create(t, sz, {})
        \/ \E fp \in FailedPtrs(stack[t]) : Grow(t, fp, {})
        \/ Destroy(t)

Spec == Init /\ [][Next]_vars

\* one task; the OS may refuse the commits of create
NextOS ==
    \E t \in SoloTasks :
        \/ \E sz \in ReqSizes, fails \in FailSets : Create(t, sz, fails)
        \/ \E fp \in FailedPtrs(stack[t]) : Grow(t, fp, {})
        \/ Destroy(t)

SpecOS == Init /\ [][NextOS]_vars

\* requested sizes of the two-task specification: a byte, a page and a byte,
\* the largest size either platform accepts, the ceiling
PairSizes ==
    {1, prs_pal_os_get_page_size + 1,
     PRS_MAX_STACK_SIZE - (1 + 3) * prs_pal_os_get_page_size, PRS_MAX_STACK_SIZE}

\* fault addresses of the two-task specification: the byte below the
\* committed range, the lowest byte of the reservation, the byte below it
PairPtrs(stk, sz) ==
    { a \in {stk - sz - 1, stk - PRS_MAX_STACK_SIZE, stk - PRS_MAX_STACK_SIZE - 1} : a >= 0 }

\* two tasks, each with its own stack, in any interleaving of their calls
NextPair ==
    \E t \in Tasks :
        \/ \E sz \in PairSizes : Create(t, sz, {})
        \/ \E fp \in PairPtrs(stack[t], size[t]) : Grow(t, fp, {})
        \/ Destroy(t)

SpecPair == Init /\ [][NextPair]_vars

\* one task that also queries every address against its stack
NextQuery ==
    \E t \in SoloTasks :
        \/ \E sz \in PairSizes : Create(t, sz, {})
        \/ \E fp \in PairPtrs(stack[t], size[t]) : Grow(t, fp, {})
        \/ \E a \in Addr : AddressInRange(t, a)
        \/ Destroy(t)

SpecQuery == Init /\ [][NextQuery]_vars

\* requested sizes of a caller that keeps to no precondition
WildSizes == PairSizes \cup {0, HugeSize}

\* fault addresses that are no stack overflow: every address outside the
\* stack's reservation
WildPtrs(stk) == { a \in Addr : ~prs_stack_address_in_range(stk, a) }

\* one task that keeps to no precondition: any size, fault addresses outside
\* the reservation, null stack handles
NextWild ==
    \E t \in SoloTasks :
        \/ \E sz \in WildSizes : Create(t, sz, {})
        \/ \E fp \in WildPtrs(stack[t]) : Grow(t, fp, {})
        \/ \E fp \in {0, AddrSpace - 1} : GrowNull(t, fp)
        \/ Destroy(t)
        \/ DestroyNull(t)

SpecWild == Init /\ [][NextWild]_vars

\* fault addresses of every kind: the byte below the committed range, the
\* highest byte of the stack, the lowest byte of the reservation, the byte
\* below it, the top of the stack, the byte and the page above it, and both
\* ends of the address space
AnyPtrs(stk, sz) ==
    { a \in Addr : a \in {stk - sz - 1, stk - 1, stk - PRS_MAX_STACK_SIZE,
                          stk - PRS_MAX_STACK_SIZE - 1, stk, stk + 1,
                          stk + prs_pal_os_get_page_size, 0, AddrSpace - 1} }

\* the commits of one call that the OS may refuse: none or all of them, and
\* none while a page stands refused
AllOrNone == IF refused = {} THEN {{}, CommitIdx} ELSE {{}}

\* one task whose grows are passed the current size and a fault address of
\* any kind, inside or outside the reservation; the OS may refuse the commits
\* of create and of grow
NextAny ==
    \E t \in SoloTasks :
        \/ \E sz \in PairSizes \cup {HugeSize}, fails \in FailSets : Create(t, sz, fails)
        \/ \E fp \in AnyPtrs(stack[t], size[t]), fails \in AllOrNone : Grow(t, fp, fails)
        \/ Destroy(t)

SpecAny == Init /\ [][NextAny]_vars

TypeOK ==
    /\ os \in {"windows", "linux"}
    /\ mem \in [PageIdx -> {"free", "reserved", "rw", "guard"}]
    /\ stack \in [Tasks -> Addr]
    /\ size \in [Tasks -> Addr]
    /\ peak \in [Tasks -> Addr]
    /\ refused \subseteq PageIdx
    /\ terminated \in BOOLEAN

(* ------------------------------ properties ----------------------------- *)
PageSize == prs_pal_os_get_page_size

\* sz rounded up to the next multiple of the page size, in the integers
CeilPage(sz) == ((sz + PageSize - 1) \div PageSize) * PageSize

\* the guard page and the extra pages of the guard-page platform
Overhead == IF os = "windows" THEN (1 + 3) * PageSize ELSE 0

\* the reservation primitive was called and failed
MapFailed == Len(last.maps) > 0 /\ last.maps[1].base = 0

CreateReturned == last.op = "create" /\ ~last.fatal
CreateSucceeded == CreateReturned /\ last.ret_ptr # 0
CreateFailed == CreateReturned /\ last.ret_ptr = 0
GrowReturned == last.op = "grow" /\ ~last.fatal
GrowSucceeded == GrowReturned /\ last.ret_ok
GrowFailed == GrowReturned /\ ~last.ret_ok

\* the pages of [stk - len, stk)
PagesBelow(stk, len) == PagesOf(stk - len, len)

Live(t) == stack[t] # 0

\* C1 (as stated): for every requested size 0 < s <= ceiling, on each
\* platform, when the reservation primitive succeeds, create returns a stack
\* and available_size is s rounded up to a page multiple, at most the ceiling.
C1_CreateSucceedsUpToCeiling ==
    (CreateReturned /\ 0 < last.sz /\ last.sz <= PRS_MAX_STACK_SIZE /\ ~MapFailed)
        => /\ last.ret_ptr # 0
           /\ last.out = CeilPage(last.sz)
           /\ last.out <= PRS_MAX_STACK_SIZE

\* C1 (amended): for every requested size s > 0 whose round-up is at most the
\* ceiling minus the platform overhead ((1 + extra pages) pages on the
\* guard-page platform, nothing on the other), when the reservation primitive
\* succeeds, create returns a stack and available_size is the multiple of the
\* page size in [s, s + page), at most the ceiling; for the other sizes up
\* to the ceiling create returns null.
C1_CreateSucceedsUpToCeilingLessOverhead ==
    (CreateReturned /\ 0 < last.sz /\ last.sz <= PRS_MAX_STACK_SIZE /\ ~MapFailed)
        => IF CeilPage(last.sz) <= PRS_MAX_STACK_SIZE - Overhead
           THEN /\ last.ret_ptr # 0
                /\ last.out % PageSize = 0
                /\ last.out >= last.sz
                /\ last.out < last.sz + PageSize
                /\ last.out <= PRS_MAX_STACK_SIZE
                /\ size[last.task] = last.out
           ELSE last.ret_ptr = 0 /\ last.out = Unwritten

\* on the guard-page platform a create of an unaligned size has succeeded
\* with the largest size that leaves room for the guard and extra pages
C1_Witness ==
    /\ CreateSucceeded /\ os = "windows"
    /\ last.sz > PageSize /\ last.sz % PageSize # 0
    /\ last.out > last.sz
    /\ last.out = PRS_MAX_STACK_SIZE - Overhead

\* C2: a create that fails because the rounded-up size exceeds the ceiling
\* (less the overhead on the guard-page platform) leaves no reservation of
\* its own mapped, has issued no commit and has not written available_size.
C2_CreateFailureNoSideEffects ==
    (CreateFailed /\ last.sz > 0 /\ CeilPage(last.sz) > PRS_MAX_STACK_SIZE - Overhead)
        => /\ \A i \in 1 .. Len(last.maps) :
                last.maps[i].base # 0 =>
                    \A p \in PagesOf(last.maps[i].base, last.maps[i].len) : mem[p] = "free"
           /\ last.commits = << >>
           /\ last.out = Unwritten

\* C3: after a successful grow passed the current size and a failed_ptr in
\* [stack - ceiling, stack - old_size), failed_ptr lies in the read/write
\* range [stack - new_size, stack) and the stack's top has not moved.
C3_GrowCoversFailedPtr ==
    (/\ GrowSucceeded
     /\ last.ptr >= last.stk - PRS_MAX_STACK_SIZE
     /\ last.ptr < last.stk - last.old)
        => /\ last.ptr >= last.stk - last.out
           /\ last.ptr < last.stk
           /\ \A p \in PagesBelow(last.stk, last.out) : mem[p] = "rw"
           /\ stack[last.task] = last.stk

\* C4: a grow that returns failure has issued no commit, has not written
\* new_size and has left the protection of every page as it was; the
\* caller's size is still the one it passed.
C4_GrowFailureNoSideEffects ==
    GrowFailed
        => /\ last.commits = << >>
           /\ last.out = Unwritten
           /\ mem = last.pre
           /\ size[last.task] = last.old
           /\ stack[last.task] = last.stk

\* a grow has failed on the guard-page platform for lack of room for the
\* guard and extra pages, although the new size is within the ceiling
C4_Witness ==
    /\ GrowFailed /\ os = "windows"
    /\ last.old + Overhead <= PRS_MAX_STACK_SIZE
    /\ last.old > PageSize

\* a grow has failed on the other platform because the new size exceeds the
\* ceiling
C4_WitnessCeiling ==
    /\ GrowFailed /\ os = "linux"
    /\ last.ptr < last.stk - PRS_MAX_STACK_SIZE
    /\ last.old > PageSize

\* C5: when the reservation or a commit of create fails in the OS, create
\* returns null; it never returns a stack whose tail [stack - available_size,
\* stack) is not committed read/write.
C5_CreateReportsPrimitiveFailure ==
    /\ (CreateReturned /\ MapFailed) => last.ret_ptr = 0
    /\ CreateSucceeded => \A p \in PagesBelow(last.ret_ptr, last.out) : mem[p] = "rw"

\* C6: every successful grow, passed the size last returned, returns a
\* new_size strictly greater than that size, and the size a caller holds for
\* a stack never decreases while it holds the stack.
C6_SizeGrowsMonotonically ==
    [][ \A t \in Tasks :
          (stack[t] # 0 /\ stack'[t] # 0)
              => /\ size'[t] >= size[t]
                 /\ (last'.op = "grow" /\ last'.task = t /\ ~last'.fatal /\ last'.ret_ok)
                        => /\ last'.old = size[t]
                           /\ last'.out > last'.old
                           /\ size'[t] = last'.out ]_vars

\* C7: the size last returned for a live stack is a multiple of the page
\* size and at most the ceiling.
C7_SizeAlignedAndBounded ==
    /\ \A t \in Tasks :
         Live(t) => size[t] % PageSize = 0 /\ size[t] <= PRS_MAX_STACK_SIZE
    /\ (CreateSucceeded \/ GrowSucceeded)
         => last.out % PageSize = 0 /\ last.out <= PRS_MAX_STACK_SIZE

\* a grow for an unaligned fault address has succeeded on the
\* alternate-handler-stack platform
C7_Witness ==
    /\ GrowSucceeded /\ os = "linux"
    /\ last.ptr % PageSize # 0
    /\ size[last.task] = last.out /\ last.out > PageSize

C8_WitnessShrunk ==
    /\ GrowSucceeded /\ os # "windows"
    /\ size[last.task] < peak[last.task]
    /\ \E p \in PagesBelow(last.stk, peak[last.task]) :
           p \notin PagesBelow(last.stk, size[last.task]) /\ mem[p] = "rw"

\* a page of the committed range of a live stack is not read/write because
\* the OS refused its commit
C8_WitnessRefused ==
    \E t \in Tasks :
        /\ Live(t)
        /\ \E p \in PagesBelow(stack[t], size[t]) : p \in refused /\ mem[p] # "rw"

\* C9: a reservation made by create spans exactly the ceiling, the stack
\* returned is its base plus the ceiling, and grow reserves, unmaps and
\* moves nothing: the reservation of a live stack is [stack - ceiling, stack).
C9_ReservationFixed ==
    /\ last.op = "create" =>
         /\ \A i \in 1 .. Len(last.maps) : last.maps[i].len = PRS_MAX_STACK_SIZE
         /\ CreateSucceeded =>
              /\ Len(last.maps) = 1
              /\ last.ret_ptr = last.maps[1].base + PRS_MAX_STACK_SIZE
    /\ last.op = "grow" =>
         /\ last.maps = << >> /\ last.unmaps = << >>
         /\ stack[last.task] = last.stk
         /\ \A p \in PageIdx : (mem[p] = "free") <=> (last.pre[p] = "free")
    /\ \A t \in Tasks :
         Live(t) =>
            /\ \A p \in PagesBelow(stack[t], PRS_MAX_STACK_SIZE) : mem[p] # "free"
            /\ \A p \in PageIdx \ PagesBelow(stack[t], PRS_MAX_STACK_SIZE) :
                   mem[p] \in {"free", "reserved"}

\* a stack created with one page has grown
C9_Witness ==
    /\ GrowSucceeded
    /\ last.old = PageSize
    /\ Cardinality({p \in PageIdx : mem[p] # "free"}) >= PRS_MAX_STACK_SIZE \div PageSize

\* C10: destroy issues exactly one unmap, of [stack - ceiling, stack), and
\* afterwards no page of that range is reserved or committed.
C10_DestroyUnmapsReservation ==
    last.op = "destroy" =>
        /\ Len(last.unmaps) = 1
        /\ last.unmaps[1].ptr = last.stk - PRS_MAX_STACK_SIZE
        /\ last.unmaps[1].len = PRS_MAX_STACK_SIZE
        /\ last.maps = << >> /\ last.commits = << >>
        /\ \A p \in PagesBelow(last.stk, PRS_MAX_STACK_SIZE) : mem[p] = "free"
        /\ \A p \in PageIdx \ PagesBelow(last.stk, PRS_MAX_STACK_SIZE) : mem[p] = last.pre[p]

\* a large stack of the guard-page platform, with its guard page, has been
\* destroyed
C10_Witness ==
    /\ last.op = "destroy" /\ os = "windows"
    /\ last.old > PRS_MAX_STACK_SIZE \div 2
    /\ \E p \in PagesBelow(last.stk, PRS_MAX_STACK_SIZE) : last.pre[p] = "guard"

\* C11: two live stacks occupy disjoint address ranges, also when created
\* with the same requested size, and a create, grow or destroy by one task
\* leaves the protection of every page of the other task's reservation, and
\* the other task's stack and size, unchanged.
C11_StacksIndependent ==
    /\ \A t, u \in Tasks :
         (t # u /\ Live(t) /\ Live(u))
            => PagesBelow(stack[t], PRS_MAX_STACK_SIZE)
                 \cap PagesBelow(stack[u], PRS_MAX_STACK_SIZE) = {}
    /\ \A u \in Tasks :
         (last.op \in {"create", "grow", "destroy"} /\ u # last.task /\ Live(u))
            => \A p \in PagesBelow(stack[u], PRS_MAX_STACK_SIZE) : mem[p] = last.pre[p]

\* one task has destroyed its stack while the other holds a grown stack in
\* the adjacent range, committed as before
C11_Witness ==
    /\ last.op = "destroy"
    /\ \E u \in Tasks :
         /\ u # last.task /\ Live(u)
         /\ size[u] > PageSize + PageSize
         /\ (stack[u] = last.stk - PRS_MAX_STACK_SIZE \/ stack[u] - PRS_MAX_STACK_SIZE = last.stk)
         /\ \A p \in PagesBelow(stack[u], size[u]) : mem[p] = "rw"

\* C12: for a created stack, address_in_range(stack, a) is true exactly when
\* stack - ceiling <= a < stack (true for stack - 1 and stack - ceiling, false
\* for stack and stack - ceiling - 1); the call issues no memory operation
\* and changes nothing.
C12_AddressInRange ==
    last.op = "in_range" =>
        /\ last.ret_ok <=> (last.stk - PRS_MAX_STACK_SIZE <= last.ptr /\ last.ptr < last.stk)
        /\ last.ptr = last.stk - 1 => last.ret_ok
        /\ last.ptr = last.stk - PRS_MAX_STACK_SIZE => last.ret_ok
        /\ last.ptr = last.stk => ~last.ret_ok
        /\ last.ptr = last.stk - PRS_MAX_STACK_SIZE - 1 => ~last.ret_ok
        /\ last.maps = << >> /\ last.commits = << >> /\ last.unmaps = << >>
        /\ mem = last.pre
        /\ stack[last.task] = last.stk /\ size[last.task] = last.old

\* the top address of a grown stack has been queried and found out of range
C12_Witness ==
    /\ last.op = "in_range"
    /\ last.ptr = last.stk /\ ~last.ret_ok
    /\ last.old > PageSize

\* the lowest address of the reservation has been found in range
C12_WitnessBottom ==
    /\ last.op = "in_range"
    /\ last.ptr = last.stk - PRS_MAX_STACK_SIZE /\ last.ret_ok

\* C13: create with size 0, grow with a null stack and destroy with a null
\* stack each terminate the program before any memory primitive is called
\* and return nothing.
C13_ProgrammingErrorsFatal ==
    (\/ last.op = "create" /\ last.sz = 0
     \/ last.op = "grow" /\ last.stk = 0
     \/ last.op = "destroy" /\ last.stk = 0)
        => /\ last.fatal /\ terminated
           /\ last.maps = << >> /\ last.commits = << >> /\ last.unmaps = << >>
           /\ last.ret_ptr = 0 /\ ~last.ret_ok /\ last.out = Unwritten
           /\ mem = last.pre

\* the pages that the last call committed with plain read/write access
RwCommitted ==
    UNION { PagesOf(last.commits[i].ptr, last.commits[i].len) :
              i \in { j \in 1 .. Len(last.commits) : last.commits[j].flags = "rw" } }

\* C14: on a successful grow the pages committed with plain read/write
\* access include every page of the newly needed range [stack - new_size,
\* stack - old_size) and no page of the range [stack - old_size, stack) that
\* was committed already.
C14_GrowCommitsNewRangeOnly ==
    GrowSucceeded =>
        /\ PagesOf(last.stk - last.out, last.out - last.old) \subseteq RwCommitted
        /\ RwCommitted \cap PagesBelow(last.stk, last.old) = {}

\* C15: a successful grow returns, on the guard-page platform, old_size plus
\* (1 + extra pages) pages whatever failed_ptr is, and on the other platform
\* stack - failed_ptr rounded up to a page multiple whatever old_size is.
C15_GrowSizePolicy ==
    GrowSucceeded =>
        IF os = "windows"
        THEN last.out = last.old + (1 + 3) * PageSize
        ELSE /\ last.out = CeilPage(last.stk - last.ptr)
             /\ last.stk - last.ptr > last.old

\* on the guard-page platform a grow for a fault address far below the guard
\* page has succeeded
C15_Witness ==
    /\ GrowSucceeded /\ os = "windows"
    /\ last.ptr < last.stk - last.old - 2 * Overhead

\* on the other platform a grow has succeeded that skipped more than a page
C15_WitnessExact ==
    /\ GrowSucceeded /\ os = "linux"
    /\ last.out > last.old + PageSize
    /\ last.ptr % PageSize # 0

\* C16: on the alternate-handler-stack platform a grow whose failed_ptr lies
\* inside the committed region (stack - failed_ptr <= old_size) stops the
\* program at the assertion: it returns neither success nor failure, issues
\* no commit and does not write new_size.
C16_GrowInsideCommittedFatal ==
    (/\ last.op = "grow" /\ os = "linux" /\ last.stk # 0
     /\ last.ptr < last.stk
     /\ last.stk - last.ptr <= last.old)
        => /\ last.fatal /\ terminated
           /\ ~last.ret_ok
           /\ last.commits = << >>
           /\ last.out = Unwritten
           /\ mem = last.pre
           /\ size[last.task] = last.old

\* a grow for the lowest committed byte of a grown stack has stopped the program
C16_Witness ==
    /\ last.op = "grow" /\ os = "linux"
    /\ last.stk - last.ptr = last.old
    /\ last.old > PageSize
    /\ terminated

\* C17: on the guard-page platform the reservation of a live stack holds
\* exactly one guard page, the page directly below stack_limit; the 3 extra
\* pages directly below it are read/write; no guard page lies in the
\* committed range [stack_limit, stack).
C17_OneGuardBelowLimit ==
    \A t \in Tasks :
        (os = "windows" /\ Live(t)) =>
            LET limit == stack[t] - size[t] IN
            /\ { p \in PagesBelow(stack[t], PRS_MAX_STACK_SIZE) : mem[p] = "guard" }
                 = PagesOf(limit - PageSize, PageSize)
            /\ Cardinality(PagesOf(limit - PageSize, PageSize)) = 1
            /\ Cardinality(PagesOf(limit - (1 + 3) * PageSize, 3 * PageSize)) = 3
            /\ \A p \in PagesOf(limit - (1 + 3) * PageSize, 3 * PageSize) : mem[p] = "rw"
            /\ \A p \in PagesBelow(stack[t], size[t]) : mem[p] # "guard"

\* a stack of the guard-page platform has grown twice (or once from a large
\* size): the pages of its previous guard and extra pages are read/write
C17_Witness ==
    /\ GrowSucceeded /\ os = "windows"
    /\ last.old >= (1 + 3) * PageSize
    /\ \E p \in PagesBelow(last.stk, last.out) : last.pre[p] = "guard" /\ mem[p] = "rw"

\* the stack that the last create or grow worked on
LastTop == IF last.op = "create" THEN last.ret_ptr ELSE last.stk

\* C18: every commit issued by create or grow targets a range inside the
\* stack's reservation [stack - ceiling, stack), and no create or grow changes
\* the protection of a page below stack_bottom or at or above stack.
C18_CommitsInsideReservation ==
    (last.op \in {"create", "grow"} /\ ~last.fatal) =>
        /\ \A i \in 1 .. Len(last.commits) :
             /\ last.commits[i].ptr >= LastTop - PRS_MAX_STACK_SIZE
             /\ last.commits[i].ptr + last.commits[i].len <= LastTop
        /\ (CreateSucceeded \/ last.op = "grow") =>
             \A p \in PageIdx \ PagesBelow(LastTop, PRS_MAX_STACK_SIZE) : mem[p] = last.pre[p]

\* on the guard-page platform a create of the largest accepted size has laid
\* its extra pages at the very bottom of the reservation
C18_Witness ==
    /\ CreateSucceeded /\ os = "windows"
    /\ Len(last.commits) = 3
    /\ last.commits[1].ptr = last.ret_ptr - PRS_MAX_STACK_SIZE
    /\ last.commits[1].len > 0

\* on the guard-page platform a grow has laid its extra pages at the very
\* bottom of the reservation
C18_WitnessGrow ==
    /\ GrowSucceeded /\ os = "windows"
    /\ last.commits[1].ptr = last.stk - PRS_MAX_STACK_SIZE

\* C19: on the alternate-handler-stack platform, in pointer-width
\* arithmetic, a grow for a failed_ptr outside the stack's reservation
\* (failed_ptr >= stack or failed_ptr < stack - ceiling) never returns
\* success, and never reports a new_size smaller than old_size.
C19_GrowRejectsOutsidePtr ==
    (/\ last.op = "grow" /\ os = "linux" /\ last.stk # 0
     /\ (last.ptr >= last.stk \/ last.ptr < last.stk - PRS_MAX_STACK_SIZE))
        => /\ last.fatal \/ ~last.ret_ok
           /\ last.out = Unwritten \/ last.out >= last.old

====
